---- MODULE Spec2Model ----
(***************************************************************************)
(* Kopru HttpClient: the request pipeline (merge, request interceptors,    *)
(* transport with timeout / cancellation, response decoding, response      *)
(* interceptors, error finalizer) and the two interceptor chains with      *)
(* their index-based handles.                                              *)
(*                                                                         *)
(* One step of the model is one synchronous run of JavaScript between two  *)
(* suspension points (an await, a timer, a call made by application code). *)
(* One request() call is in flight at a time, and any number follow one    *)
(* another.  Of a RequestConfig the model keeps timeout and signal, and    *)
(* via, the marks of the handlers that returned it; responseType is the    *)
(* class default, "json".  Application code calls use and eject between    *)
(* requests.                                                               *)
(*                                                                         *)
(* Spec is that pipeline.  The other specifications take parts of the      *)
(* library alone: SpecParse applies parseResponse to every response and    *)
(* responseType, SpecMerge applies mergeConfig to every pair of config     *)
(* objects, SpecInstances and SpecDefaults follow the instances create()   *)
(* makes, with the objects they hold by reference (the headers object of   *)
(* defaults, the two chain arrays) kept in a heap.  SpecFrame follows one  *)
(* request() over that heap, SpecBody and SpecQuery apply the body and     *)
(* query string preparation of executeRequest, SpecAction applies the two  *)
(* functions of server-action.ts, SpecFinalizer applies handleError,       *)
(* SpecConcurrent interleaves several request() calls, each with its own   *)
(* frame, and SpecLive is Spec with use and eject also called while a      *)
(* request is in flight.                                                   *)
(***************************************************************************)
EXTENDS Integers, Sequences, FiniteSets, TLC

\* ------------------------------------------------------------------ bounds
\* Registrations (use calls) per behaviour.
MaxUse == 2

\* HttpClient instances per behaviour, the default instance included.
MaxClients == 2

\* Properties of a params object.
MaxParams == 2

\* The class default of RequestConfig.timeout.
DefaultTimeout == 0

Chains == {"request", "response"}

\* An optional field is a set: {} when absent (undefined), {v} when set.
\* The timeouts application code configures on a call and on the instance.
CallTimeouts == { {}, {5000} }
InstanceTimeouts == { {DefaultTimeout}, {10000} }

\* Handles application code may pass to eject: the handles use can return.
EjectIds == 0..(MaxUse - 1)

\* What application code passes to use(onFulfilled, onRejected): each handler
\* is a function or is absent.  What a function does when it is called (return
\* or raise) is decided at the call.
InterceptorInputs ==
    { <<"function", "absent">>, <<"function", "function">>,
      <<"absent", "function">> }

\* The per-call configs application code passes to request().
CallConfigs == [timeout : CallTimeouts, signal : BOOLEAN, via : {<<>>}]

\* The class default of RequestConfig.responseType.
DefaultResponseType == "json"

\* The values of responseType: the four getResponseData names, and one it
\* does not.
ResponseTypes == {"json", "text", "blob", "arraybuffer", "xml"}

StatusText(s) ==
    IF s = 200 THEN "OK" ELSE IF s = 204 THEN "No Content" ELSE "Not Found"

\* A Response of the transport.  body says how a read of the body ends:
\* "valid" when it resolves, "invalid" when it raises (the body is not what
\* the reader expects, or is cut short); a 204 has no body.
RawResponse(s, isOk, b) ==
    [status |-> s, ok |-> isOk, statusText |-> StatusText(s),
     headers |-> [server |-> StatusText(s)], body |-> b]

\* The raw responses the transport yields; ok as fetch sets it (2xx).
RawResponses ==
    { RawResponse(s, s \in 200..299, b) : s \in {200, 404}, b \in {"valid", "invalid"} }
        \cup { RawResponse(204, TRUE, "none") }

VARIABLES
    defaults,              \* HttpClient.defaults
    requestInterceptors,   \* HttpClient.requestInterceptors
    responseInterceptors,  \* HttpClient.responseInterceptors
    pc,                    \* where the request() call in flight is suspended
    config,                \* request()'s argument
    requestConfig,         \* executeRequest's argument (the effective config)
    current,               \* currentConfig / currentResponse of the running chain
    i,                     \* position of the running for-of iterator (1-based)
    cur,                   \* the interceptor bound by the running iteration
    raw,                   \* the Response fetch resolved with
    timerPending,          \* timeoutId names a timer that has not fired or been cleared
    controller,            \* executeRequest created its own AbortController
    timerFired,            \* the timer called controller.abort()
    callerAborted,         \* application code aborted the signal it supplied
    result,                \* what request() settled with
    nreg,                  \* use calls made (identity of the interceptor objects)
    issued,                \* history: issued[reg] = the chain and handle use returned
    ejectedRegs,           \* history: registrations whose handle was passed to eject
    runEjected,            \* history: ejectedRegs when the request in flight began
    trace,                 \* history: the events of the request in flight
    input,                 \* the arguments of the helper method being applied
    output,                \* what that method returned or raised
    heap,                  \* the objects shared by reference, by address
    clients                \* the HttpClient instances, in order of construction

vars == << defaults, requestInterceptors, responseInterceptors, pc, config,
           requestConfig, current, i, cur, raw, timerPending, controller,
           timerFired, callerAborted, result, nreg, issued,
           ejectedRegs, runEjected, trace, input, output, heap, clients >>

\* The state of one client and its request in flight.
clientVars == << defaults, requestInterceptors, responseInterceptors, pc,
                 config, requestConfig, current, i, cur, raw, timerPending,
                 controller, timerFired, callerAborted, result, nreg, issued,
                 ejectedRegs, runEjected, trace >>

\* The state of the helper methods taken alone and of the set of instances.
sideVars == << input, output, heap, clients >>

chainVars == << requestInterceptors, responseInterceptors, nreg, issued,
                ejectedRegs >>

execVars == << raw, timerPending, controller, timerFired, callerAborted >>

None == [none |-> TRUE]

NoInterceptor == [reg |-> 0, onFulfilled |-> "absent", onRejected |-> "absent"]

Chain(c) == IF c = "request" THEN requestInterceptors ELSE responseInterceptors

InFlight == pc \notin {"idle", "resolved", "rejected"}

\* ------------------------------------------------------- interceptor chains

\* interceptors.<c>.use: push, and return length - 1.
UseHandle(chain) == Len(chain) - 1

\* Application code calls use and eject between requests, not while one is in
\* flight.
MayChange == pc = "idle"

Use(c, f, r) ==
    /\ nreg < MaxUse
    /\ MayChange
    /\ LET reg == nreg + 1
           interceptor == [reg |-> reg, onFulfilled |-> f, onRejected |-> r]
           pushed == Append(Chain(c), interceptor)
       IN /\ requestInterceptors' =
                 IF c = "request" THEN pushed ELSE requestInterceptors
          /\ responseInterceptors' =
                 IF c = "response" THEN pushed ELSE responseInterceptors
          /\ nreg' = reg
          /\ issued' = Append(issued, [chain |-> c, handle |-> UseHandle(pushed)])
    /\ UNCHANGED << defaults, pc, config, requestConfig, current, i, cur,
                    result, ejectedRegs, runEjected, trace >>
    /\ UNCHANGED execVars
    /\ UNCHANGED sideVars

\* Array.prototype.splice(id, 1).
Splice(chain, id) ==
    [k \in 1..(Len(chain) - 1) |-> IF k <= id THEN chain[k] ELSE chain[k + 1]]

\* interceptors.<c>.eject: splice when 0 <= id < length.
EjectResult(chain, id) ==
    IF id >= 0 /\ id < Len(chain) THEN Splice(chain, id) ELSE chain

Eject(c, id) ==
    /\ MayChange
    /\ requestInterceptors' =
           IF c = "request" THEN EjectResult(requestInterceptors, id)
           ELSE requestInterceptors
    /\ responseInterceptors' =
           IF c = "response" THEN EjectResult(responseInterceptors, id)
           ELSE responseInterceptors
    /\ ejectedRegs' = ejectedRegs \cup
           { reg \in 1..nreg : issued[reg].chain = c /\ issued[reg].handle = id }
    /\ UNCHANGED << defaults, pc, config, requestConfig, current, i, cur,
                    result, nreg, issued, runEjected, trace >>
    /\ UNCHANGED execVars
    /\ UNCHANGED sideVars

\* ------------------------------------------------------------ the handlers

\* A fulfillment handler that returns: the value it was given, marked.
Transform(value, reg) == [value EXCEPT !.via = Append(@, reg)]

\* A fulfillment handler that raises: an Error object of its own.
InterceptorError(reg) ==
    [name |-> "Error", text |-> "interceptor", ms |-> {}, config |-> {},
     status |-> {}, data |-> {}, by |-> reg]

\* A rejection handler that returns: a replacement value of its own.
Recovered(c, reg) ==
    IF c = "request"
    THEN [timeout |-> {}, signal |-> FALSE, via |-> <<reg>>]
    ELSE [status |-> 200, data |-> "fallback", config |-> {}, via |-> <<reg>>]

Event(e, c, interceptor, v) ==
    [ev |-> e, chain |-> c, reg |-> interceptor.reg,
     hasR |-> (interceptor.onRejected # "absent"), val |-> v]

\* ---------------------------------------------------------------- request()

\* mergeConfig: the defaults overlaid with the call's config.
mergeConfig(cfg) ==
    [timeout |-> IF cfg.timeout = {} THEN defaults.timeout ELSE cfg.timeout,
     signal |-> cfg.signal,
     via |-> cfg.via]

\* handleError(error, config): an AbortError becomes the timeout error; an
\* error that has a config is rethrown; any other error gets the config.
handleError(error, cfg) ==
    IF error.name = "AbortError"
    THEN [name |-> "Error", text |-> "timeout", ms |-> cfg.timeout,
          config |-> {cfg}, status |-> {}, data |-> {}, by |-> 0]
    ELSE IF error.config # {} THEN error
    ELSE [error EXCEPT !.config = {cfg}]

\* The catch clause of request(): it hands handleError the call's config.
Catch(error) == handleError(error, config)

\* The next iteration of for (const interceptor of chain): the first
\* interceptor at or after position k that has a fulfillment handler.
Advance(chain, k) ==
    IF \E j \in k..Len(chain) : chain[j].onFulfilled # "absent"
    THEN CHOOSE j \in k..Len(chain) :
             /\ chain[j].onFulfilled # "absent"
             /\ \A h \in k..(j - 1) : chain[h].onFulfilled = "absent"
    ELSE Len(chain) + 1

\* Variant: the handler is given the value without what earlier handlers did.
HandlerArgumentStale(value) == [value EXCEPT !.via = <<>>]

\* The value a fulfillment handler is called with.
HandlerArgument(value) == value

\* The loop of runRequestInterceptors / runResponseInterceptors, from
\* iterator position k with the value so far, up to its next await: it calls
\* the next fulfillment handler, or falls out of the loop and returns.
RunChain(c, k, value, tr) ==
    LET chain == Chain(c)
        j == Advance(chain, k)
    IN IF j <= Len(chain)
       THEN /\ pc' = IF c = "request" THEN "reqFulfilled" ELSE "resFulfilled"
            /\ i' = j
            /\ cur' = chain[j]
            /\ current' = value
            /\ trace' = Append(tr, Event("callF", c, chain[j], HandlerArgument(value)))
            /\ result' = result
       ELSE /\ pc' = IF c = "request" THEN "reqDone" ELSE "resolved"
            /\ i' = 0
            /\ cur' = NoInterceptor
            /\ current' = value
            /\ trace' = tr
            /\ result' = IF c = "request" THEN result ELSE value

\* A rejection that reaches the caller of request().
Reject(error, tr) ==
    /\ pc' = "rejected"
    /\ result' = error
    /\ i' = 0
    /\ cur' = NoInterceptor
    /\ current' = None
    /\ trace' = tr

\* Variant: the raise is swallowed and the loop goes on.
RaiseSwallowed(c, error, tr) == RunChain(c, i + 1, current, tr)

\* A raise inside the try block of request(): it goes through the catch clause.
\* A raise of runResponseInterceptors is outside it: request() returns that
\* promise without awaiting it.
Raise(c, error, tr) ==
    IF c = "request" THEN Reject(Catch(error), tr) ELSE Reject(error, tr)

\* request(config): merge, then runRequestInterceptors up to its first await.
Request(cfg) ==
    /\ pc = "idle"
    /\ config' = cfg
    /\ runEjected' = ejectedRegs
    /\ RunChain("request", 1, mergeConfig(cfg),
                << Event("merge", "none", NoInterceptor, mergeConfig(cfg)) >>)
    /\ UNCHANGED << defaults, requestInterceptors, responseInterceptors,
                    requestConfig, nreg, issued, ejectedRegs >>
    /\ UNCHANGED execVars
    /\ UNCHANGED sideVars

ChainOf(p) == IF p \in {"reqFulfilled", "reqRejected"} THEN "request" ELSE "response"

\* await interceptor.onFulfilled(currentConfig) resumes with a value.
FulfilledReturns ==
    /\ pc \in {"reqFulfilled", "resFulfilled"}
    /\ cur.onFulfilled # "absent"
    /\ LET v == Transform(current, cur.reg)
       IN RunChain(ChainOf(pc), i + 1, v,
                   Append(trace, Event("retF", ChainOf(pc), cur, v)))
    /\ UNCHANGED << defaults, config, requestConfig, runEjected >>
    /\ UNCHANGED chainVars
    /\ UNCHANGED execVars
    /\ UNCHANGED sideVars

\* Variant: the raise leaves the chain whether or not the interceptor has a
\* rejection handler.
FulfilledThrowsNoRecovery ==
    /\ pc \in {"reqFulfilled", "resFulfilled"}
    /\ cur.onFulfilled # "absent"
    /\ LET c == ChainOf(pc)
           e == InterceptorError(cur.reg)
       IN Raise(c, e, Append(trace, Event("throwF", c, cur, e)))
    /\ UNCHANGED << defaults, config, requestConfig, runEjected >>
    /\ UNCHANGED chainVars
    /\ UNCHANGED execVars
    /\ UNCHANGED sideVars

\* await interceptor.onFulfilled(currentConfig) raises: the interceptor's own
\* rejection handler is called, or the raise leaves the chain.
FulfilledThrows ==
    /\ pc \in {"reqFulfilled", "resFulfilled"}
    /\ cur.onFulfilled # "absent"
    /\ LET c == ChainOf(pc)
           e == InterceptorError(cur.reg)
           tr == Append(trace, Event("throwF", c, cur, e))
       IN IF cur.onRejected # "absent"
          THEN /\ pc' = IF c = "request" THEN "reqRejected" ELSE "resRejected"
               /\ trace' = Append(tr, Event("callR", c, cur, e))
               /\ current' = e
               /\ UNCHANGED << i, cur, result >>
          ELSE Raise(c, e, tr)
    /\ UNCHANGED << defaults, config, requestConfig, runEjected >>
    /\ UNCHANGED chainVars
    /\ UNCHANGED execVars
    /\ UNCHANGED sideVars

\* await interceptor.onRejected(error) resumes with a replacement value.
RejectedReturns ==
    /\ pc \in {"reqRejected", "resRejected"}
    /\ cur.onRejected # "absent"
    /\ LET c == ChainOf(pc)
           v == Recovered(c, cur.reg)
       IN RunChain(c, i + 1, v, Append(trace, Event("retR", c, cur, v)))
    /\ UNCHANGED << defaults, config, requestConfig, runEjected >>
    /\ UNCHANGED chainVars
    /\ UNCHANGED execVars
    /\ UNCHANGED sideVars

\* await interceptor.onRejected(error) raises (re-rejects with the error).
RejectedThrows ==
    /\ pc \in {"reqRejected", "resRejected"}
    /\ cur.onRejected # "absent"
    /\ LET c == ChainOf(pc)
       IN Raise(c, current, Append(trace, Event("throwR", c, cur, current)))
    /\ UNCHANGED << defaults, config, requestConfig, runEjected >>
    /\ UNCHANGED chainVars
    /\ UNCHANGED execVars
    /\ UNCHANGED sideVars

\* ----------------------------------------------------------- executeRequest

\* timeout && timeout > 0
HasTimeout(cfg) == \E t \in cfg.timeout : t > 0

\* Variant: an AbortController is made whether or not the config has a signal.
OwnControllerAlways(cfg) == TRUE

\* const controller = fetchOptions.signal ? null : new AbortController()
OwnController(cfg) == ~cfg.signal

\* The signal handed to fetch has fired: the caller's signal, or the signal of
\* executeRequest's own controller.
Aborted == IF controller THEN timerFired ELSE callerAborted

\* What fetch and the body readers reject with once the signal has fired.
AbortError ==
    [name |-> "AbortError", text |-> "aborted", ms |-> {}, config |-> {},
     status |-> {}, data |-> {}, by |-> 0]

\* What fetch rejects with when the exchange cannot be completed.
NetworkError ==
    [name |-> "TypeError", text |-> "network", ms |-> {}, config |-> {},
     status |-> {}, data |-> {}, by |-> 0]

\* What response.json() raises on a body that is not JSON.
DecodeError ==
    [name |-> "SyntaxError", text |-> "decode", ms |-> {}, config |-> {},
     status |-> {}, data |-> {}, by |-> 0]

\* parseResponse, !response.ok: the error it builds; d is {} when decoding
\* the body raised.
StatusError(r, d) ==
    [name |-> "Error", text |-> "status", ms |-> {}, config |-> {},
     status |-> {r.status}, statusText |-> {r.statusText},
     headers |-> {r.headers}, data |-> d, by |-> 0]

\* The HttpResponse executeRequest returns.
Response(r, d) ==
    [status |-> r.status, data |-> d, config |-> {requestConfig}, via |-> <<>>]

\* Variant: runRequestInterceptors is not awaited, so executeRequest starts
\* while a request interceptor is still pending.
ExecEarly ==
    /\ pc \in {"reqFulfilled", "reqDone"}
    /\ pc' = "fetch"
    /\ requestConfig' = current
    /\ controller' = OwnController(current)
    /\ timerPending' = (HasTimeout(current) /\ OwnController(current))
    /\ timerFired' = FALSE
    /\ trace' = Append(trace, Event("transport", "none", NoInterceptor, current))
    /\ UNCHANGED << defaults, config, current, i, cur, raw, callerAborted,
                    result, runEjected >>
    /\ UNCHANGED chainVars
    /\ UNCHANGED sideVars

\* executeRequest(requestConfig) up to await fetch(...): the controller, the
\* timer, the call of fetch.
Exec ==
    /\ pc = "reqDone"
    /\ pc' = "fetch"
    /\ requestConfig' = current
    /\ controller' = OwnController(current)
    /\ timerPending' = (HasTimeout(current) /\ OwnController(current))
    /\ timerFired' = FALSE
    /\ trace' = Append(trace, Event("transport", "none", NoInterceptor, current))
    /\ UNCHANGED << defaults, config, current, i, cur, raw, callerAborted,
                    result, runEjected >>
    /\ UNCHANGED chainVars
    /\ UNCHANGED sideVars

\* Variant: a raise leaves executeRequest without the finally block.
ExecThrowsNoFinally(error) ==
    /\ timerPending' = timerPending
    /\ Reject(Catch(error), trace)

\* executeRequest raises: the finally block clears the timer, and the raise
\* reaches the catch clause of request().
ExecThrows(error) ==
    /\ timerPending' = FALSE
    /\ Reject(Catch(error), trace)

\* executeRequest returns its HttpResponse; the finally block clears the timer.
ExecReturns(response) ==
    /\ timerPending' = FALSE
    /\ pc' = "execDone"
    /\ current' = response
    /\ trace' = Append(trace, Event("decoded", "none", NoInterceptor, response))
    /\ UNCHANGED << i, cur, result >>

\* window.setTimeout(() => controller.abort(), timeout) fires.
TimerFire ==
    /\ timerPending
    /\ timerPending' = FALSE
    /\ timerFired' = TRUE
    /\ UNCHANGED << defaults, pc, config, requestConfig, current, i, cur, raw,
                    controller, callerAborted, result, runEjected, trace >>
    /\ UNCHANGED chainVars
    /\ UNCHANGED sideVars

\* Application code calls abort() on the controller whose signal it passed.
\* Only fetch and the body readers look at the signal, so an abort() made
\* earlier in the request is the abort() made right after fetch was called.
CallerAbort ==
    /\ pc \in {"fetch", "decode"}
    /\ config.signal
    /\ ~callerAborted
    /\ callerAborted' = TRUE
    /\ UNCHANGED << defaults, pc, config, requestConfig, current, i, cur, raw,
                    timerPending, controller, timerFired, result, runEjected,
                    trace >>
    /\ UNCHANGED chainVars
    /\ UNCHANGED sideVars

\* getResponseData on a 204: no decoding.
NoContentData == "emptyObject"

\* The body reader the switch of getResponseData picks.
Reader(responseType) ==
    IF responseType \in {"text", "blob", "arraybuffer"} THEN responseType
    ELSE "json"

\* What a body read resolves with: the parsed JSON, or the body as the
\* reader's type.
Body(reader) == IF reader = "json" THEN "parsed" ELSE reader

\* How the body read of response r ends, given whether the signal has fired.
ReadOutcome(r, aborted) ==
    IF aborted THEN "abort"
    ELSE IF r.body = "invalid" THEN "invalid" ELSE "data"

\* The two ways an async method settles.
Returned(v) == [kind |-> "return", value |-> v]
Raised(e) == [kind |-> "raise", value |-> e]

\* getResponseData(response, responseType); read is how the body read ends.
getResponseData(r, responseType, read) ==
    IF r.status = 204
    THEN Returned(IF responseType = "json" THEN NoContentData ELSE "null")
    ELSE IF read = "data" THEN Returned(Body(Reader(responseType)))
    ELSE IF read = "abort" THEN Raised(AbortError)
    ELSE Raised(DecodeError)

\* Variant: parseResponse without the try / catch around the read of an
\* error body.
parseResponseNoCatch(r, responseType, read) ==
    LET d == getResponseData(r, responseType, read)
    IN IF ~r.ok
       THEN IF d.kind = "raise" THEN d
            ELSE IF r.status = 204 THEN Returned("null")
            ELSE Raised(StatusError(r, {d.value}))
       ELSE d

\* parseResponse(response, responseType).
parseResponse(r, responseType, read) ==
    LET d == getResponseData(r, responseType, read)
    IN IF ~r.ok
       THEN IF r.status = 204 THEN Returned("null")
            ELSE Raised(StatusError(r, IF d.kind = "return" THEN {d.value} ELSE {}))
       ELSE d

\* await fetch(...) resumes with a Response; parseResponse runs up to its
\* first body read.  A 204 is not read: parseResponse returns at once.
FetchResolves(r) ==
    /\ pc = "fetch"
    /\ ~Aborted
    /\ raw' = r
    /\ IF r.status = 204
       THEN ExecReturns(Response(r, parseResponse(r, DefaultResponseType, "data").value))
       ELSE /\ pc' = "decode"
            /\ UNCHANGED << current, i, cur, result, trace, timerPending >>
    /\ UNCHANGED << defaults, config, requestConfig, controller, timerFired,
                    callerAborted, runEjected >>
    /\ UNCHANGED chainVars
    /\ UNCHANGED sideVars

\* await fetch(...) raises: the exchange failed.
FetchRejects ==
    /\ pc = "fetch"
    /\ ~Aborted
    /\ ExecThrows(NetworkError)
    /\ UNCHANGED << defaults, config, requestConfig, raw, controller,
                    timerFired, callerAborted, runEjected >>
    /\ UNCHANGED chainVars
    /\ UNCHANGED sideVars

\* await fetch(...) raises: the signal has fired.
FetchAborts ==
    /\ pc = "fetch"
    /\ Aborted
    /\ ExecThrows(AbortError)
    /\ UNCHANGED << defaults, config, requestConfig, raw, controller,
                    timerFired, callerAborted, runEjected >>
    /\ UNCHANGED chainVars
    /\ UNCHANGED sideVars

\* The body read of getResponseData ends: parseResponse returns the data of
\* an ok response, and raises the status error, with the data, otherwise.
DecodeDone(outcome) ==
    LET p == parseResponse(raw, DefaultResponseType, outcome)
    IN IF p.kind = "return"
       THEN ExecReturns(Response(raw, p.value))
       ELSE ExecThrows(p.value)

\* The body read resolves.
DecodeReturns ==
    /\ pc = "decode"
    /\ ReadOutcome(raw, Aborted) = "data"
    /\ DecodeDone("data")
    /\ UNCHANGED << defaults, config, requestConfig, raw, controller,
                    timerFired, callerAborted, runEjected >>
    /\ UNCHANGED chainVars
    /\ UNCHANGED sideVars

\* The body read raises: the body is not of the declared type.
DecodeThrows ==
    /\ pc = "decode"
    /\ ReadOutcome(raw, Aborted) = "invalid"
    /\ DecodeDone("invalid")
    /\ UNCHANGED << defaults, config, requestConfig, raw, controller,
                    timerFired, callerAborted, runEjected >>
    /\ UNCHANGED chainVars
    /\ UNCHANGED sideVars

\* The body read raises: the signal has fired.
DecodeAborts ==
    /\ pc = "decode"
    /\ ReadOutcome(raw, Aborted) = "abort"
    /\ DecodeDone("abort")
    /\ UNCHANGED << defaults, config, requestConfig, raw, controller,
                    timerFired, callerAborted, runEjected >>
    /\ UNCHANGED chainVars
    /\ UNCHANGED sideVars

\* request() resumes after await executeRequest(...): runResponseInterceptors
\* up to its first await.
RunResponse ==
    /\ pc = "execDone"
    /\ RunChain("response", 1, current, trace)
    /\ UNCHANGED << defaults, config, requestConfig, runEjected >>
    /\ UNCHANGED chainVars
    /\ UNCHANGED execVars
    /\ UNCHANGED sideVars

\* The caller has taken the outcome; the client is ready for the next request().
Return ==
    /\ pc \in {"resolved", "rejected"}
    /\ pc' = "idle"
    /\ config' = None
    /\ requestConfig' = None
    /\ current' = None
    /\ i' = 0
    /\ cur' = NoInterceptor
    /\ raw' = None
    /\ timerPending' = FALSE
    /\ controller' = FALSE
    /\ timerFired' = FALSE
    /\ callerAborted' = FALSE
    /\ result' = None
    /\ runEjected' = {}
    /\ trace' = <<>>
    /\ UNCHANGED << defaults, requestInterceptors, responseInterceptors, nreg,
                    issued, ejectedRegs >>
    /\ UNCHANGED sideVars

\* No helper method is being applied alone, and no other instance exists.
SideInit ==
    /\ input = None
    /\ output = None
    /\ heap = <<>>
    /\ clients = <<>>

\* A client with no interceptor and no request in flight.
ClientInit ==
    /\ defaults \in [timeout : InstanceTimeouts]
    /\ requestInterceptors = <<>>
    /\ responseInterceptors = <<>>
    /\ pc = "idle"
    /\ config = None
    /\ requestConfig = None
    /\ current = None
    /\ i = 0
    /\ cur = NoInterceptor
    /\ raw = None
    /\ timerPending = FALSE
    /\ controller = FALSE
    /\ timerFired = FALSE
    /\ callerAborted = FALSE
    /\ result = None
    /\ nreg = 0
    /\ issued = <<>>
    /\ ejectedRegs = {}
    /\ runEjected = {}
    /\ trace = <<>>

Init == ClientInit /\ SideInit

Next ==
    \/ \E c \in Chains, h \in InterceptorInputs : Use(c, h[1], h[2])
    \/ \E c \in Chains, id \in EjectIds : Eject(c, id)
    \/ \E cfg \in CallConfigs : Request(cfg)
    \/ FulfilledReturns
    \/ FulfilledThrows
    \/ RejectedReturns
    \/ RejectedThrows
    \/ Exec
    \/ TimerFire
    \/ CallerAbort
    \/ \E r \in RawResponses : FetchResolves(r)
    \/ FetchRejects
    \/ FetchAborts
    \/ DecodeReturns
    \/ DecodeThrows
    \/ DecodeAborts
    \/ RunResponse
    \/ Return

Spec == Init /\ [][Next]_vars

\* ------------------------------------------------- parseResponse, alone

\* A 204 the transport flags as a failure: the case of line 267.
NoContentNotOk == RawResponse(204, FALSE, "none")

\* The arguments of parseResponse, and whether the signal has fired by the
\* time the body is read.
ParseInputs ==
    [response : RawResponses \cup {NoContentNotOk},
     responseType : ResponseTypes,
     aborted : BOOLEAN]

InitParse ==
    /\ ClientInit
    /\ defaults.timeout = {DefaultTimeout}
    /\ input \in ParseInputs
    /\ output = None
    /\ heap = <<>>
    /\ clients = <<>>

\* await this.parseResponse(response, responseType) settles.
ApplyParse ==
    /\ output = None
    /\ output' = parseResponse(input.response, input.responseType,
                               ReadOutcome(input.response, input.aborted))
    /\ UNCHANGED << input, heap, clients >>
    /\ UNCHANGED clientVars

NextParse == ApplyParse

SpecParse == InitParse /\ [][NextParse]_vars

\* --------------------------------------------------- mergeConfig, alone

\* A config object is a function from the property names it has to their
\* values; headers, when there, is such a function from header names.
HeaderNames == {"Content-Type", "Authorization", "X-Trace"}
HeaderValues == {"application/json", "text/plain"}
HeaderMaps == UNION { [S -> HeaderValues] : S \in SUBSET HeaderNames }
Methods == { {}, {"POST"} }

Only(s) == CHOOSE x \in s : TRUE

\* The object with headers h, timeout t and method m, each given as an
\* optional value.
Object(h, t, m) ==
    [k \in (IF h # {} THEN {"headers"} ELSE {})
               \cup (IF t # {} THEN {"timeout"} ELSE {})
               \cup (IF m # {} THEN {"method"} ELSE {}) |->
        IF k = "headers" THEN Only(h)
        ELSE IF k = "timeout" THEN Only(t)
        ELSE Only(m)]

Configs ==
    { Object(h, t, m) :
          h \in {{}} \cup { {x} : x \in HeaderMaps },
          t \in CallTimeouts \cup InstanceTimeouts,
          m \in Methods }

\* { ...a, ...b }
Spread(a, b) ==
    [k \in DOMAIN a \cup DOMAIN b |-> IF k \in DOMAIN b THEN b[k] ELSE a[k]]

\* obj.headers || {}, and what ...obj.headers spreads.
HeadersOf(obj) == IF "headers" \in DOMAIN obj THEN obj.headers ELSE <<>>

\* Variant: the merge without the headers property of its own.
mergeShallow(d, c) == Spread(d, c)

\* mergeConfig(config) as a function of this.defaults and config, on whole
\* objects.
merge(d, c) ==
    Spread(Spread(d, c), [headers |-> Spread(HeadersOf(d), HeadersOf(c))])

MergeInputs == [defaults : Configs, override : Configs]

InitMerge ==
    /\ ClientInit
    /\ defaults.timeout = {DefaultTimeout}
    /\ input \in MergeInputs
    /\ output = None
    /\ heap = <<>>
    /\ clients = <<>>

\* this.mergeConfig(config) returns.
ApplyMerge ==
    /\ output = None
    /\ output' = Returned(merge(input.defaults, input.override))
    /\ UNCHANGED << input, heap, clients >>
    /\ UNCHANGED clientVars

NextMerge == ApplyMerge

SpecMerge == InitMerge /\ [][NextMerge]_vars

\* ------------------------------------------- instances, create, defaults

\* Objects live in heap, at the address that is their index.  A defaults
\* object belongs to its instance; its headers property, and the two chain
\* properties of an instance, hold addresses.

\* The property initializer of defaults, with its headers object at address a.
ClassDefaults(a) ==
    [baseURL |-> "", headers |-> a, method |-> "GET",
     timeout |-> DefaultTimeout, responseType |-> DefaultResponseType]

\* The headers object of that initializer.
ClassHeaders == [h \in {"Content-Type"} |-> "application/json"]

\* The configs application code passes to create(): nothing, a timeout, a
\* header the parent has not, a header the parent has.
CreateConfigs ==
    { c \in Configs :
          /\ "method" \notin DOMAIN c
          /\ "timeout" \in DOMAIN c => c.timeout = 5000 /\ "headers" \notin DOMAIN c
          /\ "headers" \in DOMAIN c =>
                 /\ DOMAIN c.headers \in {{"Authorization"}, {"Content-Type"}}
                 /\ \A h \in DOMAIN c.headers : c.headers[h] = "text/plain" }

\* The values application code writes into defaults.
HeaderWrites == {"Authorization", "Content-Type"} \X HeaderValues
TimeoutWrites == {10000}

\* The one interceptor application code registers in this part.
OneInterceptor == [reg |-> 0, onFulfilled |-> "function", onRejected |-> "absent"]

\* Variant: the new instance uses the chains of the instance p.
ChainsInherited(n, p) ==
    IF p = 0
    THEN [requestInterceptors |-> n + 1, responseInterceptors |-> n + 2]
    ELSE [requestInterceptors |-> clients[p].requestInterceptors,
          responseInterceptors |-> clients[p].responseInterceptors]

\* The initializers of requestInterceptors and responseInterceptors: two new
\* arrays, at the addresses after n.
ChainsOwn(n, p) ==
    [requestInterceptors |-> n + 1, responseInterceptors |-> n + 2]

\* The two chains of instance k of cl as values.
ChainsIn(h, cl, k) ==
    << h[cl[k].requestInterceptors], h[cl[k].responseInterceptors] >>

\* new HttpClient(cfg) on heap h, called by create of instance p (0 when
\* application code calls it): the initializers allocate the class headers
\* object and the two arrays, the constructor spreads cfg over the initial
\* defaults.  History: parent, who called; parentHad, whether it had an
\* interceptor registered then; registered, the interceptors registered
\* through this instance and not ejected through it, per chain.
Construct(h, cfg, p) ==
    LET a == Len(h) + 1
        chains == ChainsOwn(a, p)
    IN [heap |-> h \o << ClassHeaders, <<>>, <<>> >>,
        client |-> [defaults |-> Spread(ClassDefaults(a), cfg),
                    requestInterceptors |-> chains.requestInterceptors,
                    responseInterceptors |-> chains.responseInterceptors,
                    parent |-> p,
                    parentHad |-> (p # 0 /\ ChainsIn(h, clients, p) # << <<>>, <<>> >>),
                    registered |-> [requestInterceptors |-> <<>>,
                                    responseInterceptors |-> <<>>]]]

\* A config written by application code (headers as a literal), as the
\* object it is once its headers literal is at address a.
Literal(cfg, a) ==
    [k \in DOMAIN cfg |-> IF k = "headers" THEN a ELSE cfg[k]]

\* The defaults of instance k of cl as a value: headers read through its
\* address in h.
Deep(h, cl, k) ==
    LET d == cl[k].defaults
    IN [f \in DOMAIN d |-> IF f = "headers" THEN h[d.headers] ELSE d[f]]

\* Interceptors registered on all instances.
Registered ==
    LET RECURSIVE Sum(_)
        Sum(k) == IF k = 0 THEN 0
                  ELSE Len(ChainsIn(heap, clients, k)[1])
                        + Len(ChainsIn(heap, clients, k)[2]) + Sum(k - 1)
    IN Sum(Len(clients))

\* clients[p].create(cfg): new HttpClient({ ...this.defaults, ...config }).
Create(p, cfg) ==
    /\ Len(clients) < MaxClients
    /\ LET h == IF "headers" \in DOMAIN cfg THEN Append(heap, cfg.headers) ELSE heap
           arg == Spread(clients[p].defaults, Literal(cfg, Len(h)))
           made == Construct(h, arg, p)
       IN /\ heap' = made.heap
          /\ clients' = Append(clients, made.client)
    /\ UNCHANGED << input, output >>
    /\ UNCHANGED clientVars

\* clients[k].interceptors.<c>.use(f): push on the instance's array.
UseOn(k, c) ==
    /\ Registered < MaxUse
    /\ LET a == clients[k][c]
       IN heap' = [heap EXCEPT ![a] = Append(@, OneInterceptor)]
    /\ clients' = [clients EXCEPT ![k].registered[c] = Append(@, OneInterceptor)]
    /\ UNCHANGED << input, output >>
    /\ UNCHANGED clientVars

\* clients[k].interceptors.<c>.eject(id).
EjectOn(k, c, id) ==
    /\ LET a == clients[k][c]
       IN heap' = [heap EXCEPT ![a] = EjectResult(@, id)]
    /\ clients' = [clients EXCEPT ![k].registered[c] = EjectResult(@, id)]
    /\ UNCHANGED << input, output >>
    /\ UNCHANGED clientVars

\* clients[k].defaults.headers[name] = value.
SetHeader(k, name, value) ==
    /\ "headers" \in DOMAIN clients[k].defaults
    /\ LET a == clients[k].defaults.headers
       IN heap' = [heap EXCEPT ![a] = Spread(@, [n \in {name} |-> value])]
    /\ UNCHANGED << input, output, clients >>
    /\ UNCHANGED clientVars

\* clients[k].defaults.timeout = value.
SetTimeout(k, value) ==
    /\ clients' = [clients EXCEPT ![k].defaults = Spread(@, [timeout |-> value])]
    /\ UNCHANGED << input, output, heap >>
    /\ UNCHANGED clientVars

\* const kopru = new HttpClient().
InitInstances ==
    /\ ClientInit
    /\ defaults.timeout = {DefaultTimeout}
    /\ input = None
    /\ output = None
    /\ LET made == Construct(<<>>, <<>>, 0)
       IN /\ heap = made.heap
          /\ clients = << made.client >>

\* Instances and their chains.
NextInstances ==
    \/ \E p \in DOMAIN clients, cfg \in CreateConfigs : Create(p, cfg)
    \/ \E k \in DOMAIN clients : UseOn(k, "requestInterceptors")
    \/ \E k \in DOMAIN clients : UseOn(k, "responseInterceptors")
    \/ \E k \in DOMAIN clients, id \in EjectIds : EjectOn(k, "requestInterceptors", id)
    \/ \E k \in DOMAIN clients, id \in EjectIds : EjectOn(k, "responseInterceptors", id)

SpecInstances == InitInstances /\ [][NextInstances]_vars

\* Instances and their defaults.
NextDefaults ==
    \/ \E p \in DOMAIN clients, cfg \in CreateConfigs : Create(p, cfg)
    \/ \E k \in DOMAIN clients, w \in HeaderWrites : SetHeader(k, w[1], w[2])
    \/ \E k \in DOMAIN clients, t \in TimeoutWrites : SetTimeout(k, t)

SpecDefaults == InitInstances /\ [][NextDefaults]_vars

\* ------------------------------------- request() and the objects it is given

\* obj.headers read through its address in h; {} when obj has none.
HeadersAt(h, obj) == IF "headers" \in DOMAIN obj THEN h[obj.headers] ELSE <<>>

\* Variant: the merge written as Object.assign on the defaults' headers.
mergeInPlace(d, c, h) ==
    [heap |-> [h EXCEPT ![d.headers] = Spread(@, HeadersAt(h, c))],
     object |-> Spread(d, c)]

\* mergeConfig on heap h: the object literal it returns is new, and so is
\* the headers object literal inside it.
mergeOnHeap(d, c, h) ==
    [heap |-> Append(h, Spread(HeadersAt(h, d), HeadersAt(h, c))),
     object |-> Spread(Spread(d, c), [headers |-> Len(h) + 1])]

\* How executeRequest ends.
Settlements == {"response", "network", "status", "abort"}

\* const client = new HttpClient(made); client.request(given): the instance,
\* the caller's config object with its headers literal, and what they are
\* before the call.
InitFrame ==
    /\ ClientInit
    /\ defaults.timeout = {DefaultTimeout}
    /\ \E made \in CreateConfigs, given \in CreateConfigs :
           LET h1 == IF "headers" \in DOMAIN made THEN << made.headers >> ELSE <<>>
               c == Construct(h1, Literal(made, Len(h1)), 0)
               h2 == IF "headers" \in DOMAIN given
                     THEN Append(c.heap, given.headers) ELSE c.heap
               cfg == Literal(given, Len(h2))
           IN /\ heap = h2
              /\ clients = << c.client >>
              /\ input = [config |-> cfg,
                          before |-> [config |-> cfg, heap |-> h2,
                                      clients |-> << c.client >>]]
    /\ output = [pc |-> "start", current |-> None, result |-> None]

\* let requestConfig = this.mergeConfig(config).
FrameMerge ==
    /\ output.pc = "start"
    /\ LET m == mergeOnHeap(clients[1].defaults, input.config, heap)
       IN /\ heap' = m.heap
          /\ output' = [output EXCEPT !.pc = "merged", !.current = m.object]
    /\ UNCHANGED << input, clients >>
    /\ UNCHANGED clientVars

\* runRequestInterceptors copies the config ({ ...config }) and reads the
\* chain; executeRequest destructures the copy, builds the fetch options and
\* settles with a new response object or with an error.
FrameExecute(how) ==
    /\ output.pc = "merged"
    /\ output' =
           IF how = "response"
           THEN [pc |-> "responded", current |-> output.current,
                 result |-> [status |-> 200, data |-> "parsed",
                             config |-> {output.current}]]
           ELSE [pc |-> "failed", current |-> output.current,
                 result |-> [name |-> IF how = "abort" THEN "AbortError" ELSE "Error",
                             text |-> how, config |-> {}]]
    /\ UNCHANGED << input, heap, clients >>
    /\ UNCHANGED clientVars

\* return this.runResponseInterceptors(response): a copy of the response.
FrameReturn ==
    /\ output.pc = "responded"
    /\ output' = [output EXCEPT !.pc = "resolved"]
    /\ UNCHANGED << input, heap, clients >>
    /\ UNCHANGED clientVars

\* return this.handleError(error, config): the error, or the timeout error,
\* is given a reference to the caller's config.
FrameCatch ==
    /\ output.pc = "failed"
    /\ output' = [output EXCEPT
                      !.pc = "rejected",
                      !.result = [name |-> "Error",
                                  text |-> IF @.name = "AbortError" THEN "timeout" ELSE @.text,
                                  config |-> {input.config}]]
    /\ UNCHANGED << input, heap, clients >>
    /\ UNCHANGED clientVars

NextFrame ==
    \/ FrameMerge
    \/ \E how \in Settlements : FrameExecute(how)
    \/ FrameReturn
    \/ FrameCatch

SpecFrame == InitFrame /\ [][NextFrame]_vars

\* ------------------------------------------- the request body, alone

\* The values of config.body, by what they are.
Bodies ==
    {"undefined", "null", "emptyString", "string", "zero", "number", "false",
     "true", "plainObject", "array", "FormData", "Blob", "ArrayBuffer",
     "URLSearchParams"}

\* typeof body.
TypeOf(b) ==
    IF b = "undefined" THEN "undefined"
    ELSE IF b \in {"emptyString", "string"} THEN "string"
    ELSE IF b \in {"zero", "number"} THEN "number"
    ELSE IF b \in {"false", "true"} THEN "boolean"
    ELSE "object"

\* ToBoolean(body).
Truthy(b) == b \notin {"undefined", "null", "emptyString", "zero", "false"}

\* The Content-Type values application code and the class defaults use.
ContentTypes ==
    {"application/json", "application/json; charset=utf-8", "text/plain",
     "multipart/form-data", ""}

\* contentType.includes("application/json").
IncludesJson(contentType) ==
    contentType \in {"application/json", "application/json; charset=utf-8"}

\* The headers of the effective config: none, or a map with or without a
\* Content-Type entry.
BodyHeaders ==
    { {} } \cup { {h} : h \in [{"Authorization"} -> {"text/plain"}] }
           \cup { {h} : h \in [{"Content-Type"} -> ContentTypes] }

\* (fetchOptions.headers && fetchOptions.headers["Content-Type"]) || "".
ContentTypeOf(headers) ==
    IF headers = {} THEN ""
    ELSE IF "Content-Type" \in DOMAIN Only(headers)
         THEN Only(headers)["Content-Type"] ELSE ""

\* JSON.stringify(body): a string made from the body.
Stringified(b) == [is |-> "JSON text", of |-> b]

\* The body as it is.
Unchanged(b) == [is |-> "itself", of |-> b]

\* The body executeRequest hands to fetch.
requestBody(body, headers) ==
    IF Truthy(body) /\ TypeOf(body) = "object" /\ IncludesJson(ContentTypeOf(headers))
    THEN Stringified(body)
    ELSE Unchanged(body)

BodyInputs == [body : Bodies, headers : BodyHeaders]

InitBody ==
    /\ ClientInit
    /\ defaults.timeout = {DefaultTimeout}
    /\ input \in BodyInputs
    /\ output = None
    /\ heap = <<>>
    /\ clients = <<>>

\* executeRequest prepares the body.
ApplyBody ==
    /\ output = None
    /\ output' = Returned(requestBody(input.body, input.headers))
    /\ UNCHANGED << input, heap, clients >>
    /\ UNCHANGED clientVars

NextBody == ApplyBody

SpecBody == InitBody /\ [][NextBody]_vars

\* ------------------------------------------- the query string, alone

\* The values of a parameter: null, undefined, a number, a boolean, a string.
Null == [type |-> "null", n |-> 0, b |-> FALSE, s |-> ""]
Undefined == [type |-> "undefined", n |-> 0, b |-> FALSE, s |-> ""]
Num(n) == [type |-> "number", n |-> n, b |-> FALSE, s |-> ""]
Bool(b) == [type |-> "boolean", n |-> 0, b |-> b, s |-> ""]
Str(s) == [type |-> "string", n |-> 0, b |-> FALSE, s |-> s]

ParamValues == {Null, Undefined, Num(7), Num(10), Bool(TRUE), Bool(FALSE), Str("x")}

\* The decimal text of the numbers used.
Digits(n) == IF n = 7 THEN "7" ELSE IF n = 10 THEN "10" ELSE "0"

\* String(value).
String(v) ==
    IF v.type = "number" THEN Digits(v.n)
    ELSE IF v.type = "boolean" THEN (IF v.b THEN "true" ELSE "false")
    ELSE IF v.type = "string" THEN v.s
    ELSE v.type

\* Property names; "1" and "2" are array indices, which an object keeps
\* first and in ascending order, whatever the order they were added in.
ParamKeys == {"page", "q", "1", "2"}
IsIndex(k) == k \in {"1", "2"}
IndexValue(k) == IF k = "1" THEN 1 ELSE 2

\* A params object, as the sequence of its properties in the order
\* application code added them: no name twice.
RECURSIVE ParamsOfLength(_)
ParamsOfLength(n) ==
    IF n = 0 THEN { <<>> }
    ELSE { Append(p, [key |-> k, value |-> v]) :
               p \in ParamsOfLength(n - 1), k \in ParamKeys, v \in ParamValues }

Params ==
    { p \in UNION { ParamsOfLength(n) : n \in 0..MaxParams } :
          \A a, b \in DOMAIN p : a # b => p[a].key # p[b].key }

\* The properties of p that fulfil test, in the order of p.
Filter(p, test(_)) == SelectSeq(p, test)

\* The index-named properties of p in ascending order of index.
RECURSIVE Ascending(_)
Ascending(p) ==
    IF p = <<>> THEN <<>>
    ELSE LET m == CHOOSE a \in DOMAIN p :
                      \A b \in DOMAIN p : IndexValue(p[a].key) <= IndexValue(p[b].key)
         IN << p[m] >>
              \o Ascending(SelectSeq(p, LAMBDA e : e.key # p[m].key))

\* Object.entries(params): the index names ascending, then the other names
\* in the order they were added.
Entries(p) ==
    Ascending(Filter(p, LAMBDA e : IsIndex(e.key)))
        \o Filter(p, LAMBDA e : ~IsIndex(e.key))

\* fullURL.searchParams.append(key, String(value)) for one entry.
QueryPair(e) == [key |-> e.key, value |-> String(e.value)]

\* The query of fullURL after the forEach over the entries.
RECURSIVE searchParams(_)
searchParams(entries) ==
    IF entries = <<>> THEN <<>>
    ELSE (IF Head(entries).value.type \notin {"null", "undefined"}
          THEN << QueryPair(Head(entries)) >> ELSE <<>>)
             \o searchParams(Tail(entries))

InitQuery ==
    /\ ClientInit
    /\ defaults.timeout = {DefaultTimeout}
    /\ input \in [params : Params]
    /\ output = None
    /\ heap = <<>>
    /\ clients = <<>>

\* executeRequest builds the URL.
ApplyQuery ==
    /\ output = None
    /\ output' = Returned(searchParams(Entries(input.params)))
    /\ UNCHANGED << input, heap, clients >>
    /\ UNCHANGED clientVars

NextQuery == ApplyQuery

SpecQuery == InitQuery /\ [][NextQuery]_vars

\* ------------------------------------------------------ server-action.ts

\* The HttpResponse objects an action resolves with.
ActionResponses ==
    [data : {"parsed", "null"}, status : {200, 201, 204},
     statusText : {"OK"}, headers : {[server |-> "OK"]},
     config : {[url |-> "/test"]}]

\* What an action returns when it returns no response.
NoResponse == [undefined |-> TRUE]

\* A value that is thrown or rejected with.  isError: it is instanceof Error.
\* message, status, data: its properties of these names, when it has them.
Thrown(e, k, m, st, d) ==
    [isError |-> e, kind |-> k, message |-> m, status |-> st, data |-> d]

\* Error objects, HttpError among them.
ErrorObjects ==
    { Thrown(TRUE, "Error", m, st, d) :
          m \in {{""}, {"Not Found"}}, st \in {{}, {404}}, d \in {{}, {"parsed"}} }

\* Other values: a string, null, undefined, a number, and plain objects with
\* the properties of an HttpError.
OtherValues ==
    { Thrown(FALSE, k, {}, {}, {}) : k \in {"string", "null", "undefined", "number"} }
        \cup { Thrown(FALSE, "object", {"Not Found"}, st, d) :
                   st \in {{}, {404}}, d \in {{}, {"parsed"}} }

\* A ServerActionResult; error, when set, is a record.
Result(d, st, stt, h, e) ==
    [data |-> d, status |-> st, statusText |-> stt, headers |-> h, error |-> e]

\* { error: { message, status, details } } from an Error object.
ErrorResult(x) ==
    Result({}, {}, {}, {},
           { [message |-> IF x.message \in {{}, {""}} THEN "Request failed"
                          ELSE Only(x.message),
              status |-> x.status,
              details |-> x.data] })

\* { error: { message: "An unknown error occurred", details: {} } }.
UnknownErrorResult ==
    Result({}, {}, {}, {},
           { [message |-> "An unknown error occurred", status |-> {},
              details |-> {"emptyObject"}] })

\* { data, status, statusText, headers } from a response.
ResponseResult(r) ==
    Result({r.data}, {r.status}, {r.statusText}, {r.headers}, {})

\* Reading response.data of undefined: a TypeError.
ReadOfUndefined == Thrown(TRUE, "TypeError", {"Cannot read properties of undefined"}, {}, {})

\* createServerActionResult(responseOrError).
createServerActionResult(x) ==
    IF "isError" \in DOMAIN x /\ x.isError
    THEN Returned(ErrorResult(x))
    ELSE Returned(ResponseResult(x))

\* Variant: the catch clause handles Error objects and rethrows the rest.
executeServerActionRethrows(how, x) ==
    LET caught == IF how = "resolve" THEN ReadOfUndefined ELSE x
    IN IF how = "resolve" /\ x # NoResponse THEN Returned(ResponseResult(x))
       ELSE IF caught.isError THEN Returned(ErrorResult(caught))
       ELSE Raised(caught)

\* executeServerAction(actionFn), where actionFn resolves with x, rejects
\* with x, or throws x before it returns a promise.
executeServerAction(how, x) ==
    LET caught == IF how = "resolve" THEN ReadOfUndefined ELSE x
    IN IF how = "resolve" /\ x # NoResponse THEN Returned(ResponseResult(x))
       ELSE IF caught.isError THEN Returned(ErrorResult(caught))
       ELSE Returned(UnknownErrorResult)

ActionInputs ==
    [fn : {"createServerActionResult"}, how : {"call"},
     x : ActionResponses \cup ErrorObjects]
        \cup [fn : {"executeServerAction"}, how : {"resolve"},
              x : ActionResponses \cup {NoResponse}]
        \cup [fn : {"executeServerAction"}, how : {"reject", "throw"},
              x : ErrorObjects \cup OtherValues]

InitAction ==
    /\ ClientInit
    /\ defaults.timeout = {DefaultTimeout}
    /\ input \in ActionInputs
    /\ output = None
    /\ heap = <<>>
    /\ clients = <<>>

\* createServerActionResult returns.
ApplyCreateResult ==
    /\ output = None
    /\ input.fn = "createServerActionResult"
    /\ output' = createServerActionResult(input.x)
    /\ UNCHANGED << input, heap, clients >>
    /\ UNCHANGED clientVars

\* The promise of executeServerAction settles.
ApplyExecuteAction ==
    /\ output = None
    /\ input.fn = "executeServerAction"
    /\ output' = executeServerAction(input.how, input.x)
    /\ UNCHANGED << input, heap, clients >>
    /\ UNCHANGED clientVars

NextAction == ApplyCreateResult \/ ApplyExecuteAction

SpecAction == InitAction /\ [][NextAction]_vars

\* ------------------------------------------------------ handleError, alone

\* The config request() hands the finalizer: the merged config of the call.
FinalizerConfigs ==
    [timeout : {{DefaultTimeout}, {5000}}, signal : BOOLEAN, via : {<<>>}]

\* The config of a nested request, made inside an interceptor.
NestedConfigs == [timeout : {{30000}}, signal : BOOLEAN, via : {<<>>}]

\* The values raised inside the pipeline: by fetch, by parseResponse, by an
\* interceptor of its own, or by a nested request (these carry its config).
RaisedValues ==
    [name : {"Error", "AbortError", "TypeError"},
     text : {"raised"},
     ms : {{}},
     config : {{}} \cup { {c} : c \in NestedConfigs },
     status : {{}, {404}},
     data : {{}, {"parsed"}},
     by : {0}]

InitFinalizer ==
    /\ ClientInit
    /\ defaults.timeout = {DefaultTimeout}
    /\ input \in [error : RaisedValues, config : FinalizerConfigs]
    /\ output = None
    /\ heap = <<>>
    /\ clients = <<>>

\* handleError raises.
ApplyHandleError ==
    /\ output = None
    /\ output' = Raised(handleError(input.error, input.config))
    /\ UNCHANGED << input, heap, clients >>
    /\ UNCHANGED clientVars

NextFinalizer == ApplyHandleError

SpecFinalizer == InitFinalizer /\ [][NextFinalizer]_vars

\* ------------------------------------------- request() calls in flight together

\* The number of request() calls made on the client.
MaxCalls == 2

\* The AbortSignal objects application code has: a config with a signal holds
\* one of them, and two calls may be given the same one.
CallerSignals == {1, 2}

\* What the server answers these calls with.
ConcurrentResponses ==
    { RawResponse(200, TRUE, "valid"), RawResponse(404, FALSE, "valid") }

\* Here input[k] is the config passed to the k-th call of request() and
\* output[k] the frame of that call: the locals of request() and of
\* executeRequest().  signalOf is the caller's signal, 0 when there is none.
Frame(rc, s, aborted) ==
    [pc |-> "reqDone", requestConfig |-> rc, signalOf |-> s,
     controller |-> FALSE, timerPending |-> FALSE, timerFired |-> FALSE,
     callerAborted |-> aborted, raw |-> None, result |-> None]

Settled(f) == f.pc \in {"resolved", "rejected"}

\* Variant: one AbortController for the client, so the timer of any call
\* fires the signal of every call.
AbortedOfShared(fs, k) ==
    IF fs[k].controller THEN \E j \in 1..Len(fs) : fs[j].timerFired
    ELSE fs[k].callerAborted

\* The signal handed to the fetch of call k has fired: the caller's signal,
\* or the signal of the controller of that call.
AbortedOf(fs, k) ==
    IF fs[k].controller THEN fs[k].timerFired ELSE fs[k].callerAborted

\* The HttpResponse the call with frame f returns.
ResponseOf(f, d) ==
    [status |-> f.raw.status, data |-> d, config |-> {f.requestConfig},
     via |-> <<>>]

\* The finally block of executeRequest and the catch clause of request().
RaisedOf(f, error, cfg) ==
    [f EXCEPT !.pc = "rejected", !.timerPending = FALSE,
              !.result = handleError(error, cfg)]

\* The finally block, and request() returning what runResponseInterceptors
\* gives for an empty chain.
ReturnedOf(f, d) ==
    [f EXCEPT !.pc = "resolved", !.timerPending = FALSE,
              !.result = ResponseOf(f, d)]

InitConcurrent ==
    /\ ClientInit
    /\ defaults.timeout = {DefaultTimeout}
    /\ input = <<>>
    /\ output = <<>>
    /\ heap = <<>>
    /\ clients = <<>>

\* request(cfg) up to await runRequestInterceptors(...).  s is the signal in
\* cfg; it may have fired already.
Start(cfg, s) ==
    /\ Len(output) < MaxCalls
    /\ (s # 0) = cfg.signal
    /\ input' = Append(input, cfg)
    /\ output' = Append(output,
                        Frame(mergeConfig(cfg), s,
                              \E j \in 1..Len(output) :
                                  output[j].signalOf = s /\ output[j].callerAborted))
    /\ UNCHANGED << heap, clients >>
    /\ UNCHANGED clientVars

\* Call k: executeRequest up to await fetch(...).
ExecOf(k) ==
    /\ output[k].pc = "reqDone"
    /\ output' = [output EXCEPT
                    ![k].pc = "fetch",
                    ![k].controller = OwnController(output[k].requestConfig),
                    ![k].timerPending =
                        (HasTimeout(output[k].requestConfig)
                             /\ OwnController(output[k].requestConfig))]
    /\ UNCHANGED << input, heap, clients >>
    /\ UNCHANGED clientVars

\* The timer of call k fires: controller.abort() on the controller of call k.
TimerFireOf(k) ==
    /\ output[k].timerPending
    /\ output' = [output EXCEPT ![k].timerPending = FALSE,
                                ![k].timerFired = TRUE]
    /\ UNCHANGED << input, heap, clients >>
    /\ UNCHANGED clientVars

\* Application code calls abort() on the controller of signal s: every call
\* that was given s and has not settled sees it.
CallerAbortOf(s) ==
    /\ \E k \in 1..Len(output) :
           output[k].signalOf = s /\ ~Settled(output[k]) /\ ~output[k].callerAborted
    /\ output' = [k \in 1..Len(output) |->
                    IF output[k].signalOf = s /\ ~Settled(output[k])
                    THEN [output[k] EXCEPT !.callerAborted = TRUE]
                    ELSE output[k]]
    /\ UNCHANGED << input, heap, clients >>
    /\ UNCHANGED clientVars

\* Call k: await fetch(...) resumes with a Response.
FetchResolvesOf(k, r) ==
    /\ output[k].pc = "fetch"
    /\ ~AbortedOf(output, k)
    /\ output' = [output EXCEPT ![k].pc = "decode", ![k].raw = r]
    /\ UNCHANGED << input, heap, clients >>
    /\ UNCHANGED clientVars

\* Call k: await fetch(...) raises, the exchange failed or the signal fired.
FetchRaisesOf(k) ==
    /\ output[k].pc = "fetch"
    /\ output' = [output EXCEPT
                    ![k] = RaisedOf(@, IF AbortedOf(output, k) THEN AbortError
                                       ELSE NetworkError,
                                    input[k])]
    /\ UNCHANGED << input, heap, clients >>
    /\ UNCHANGED clientVars

\* Call k: the body read ends and parseResponse returns or raises.
DecodeOf(k) ==
    /\ output[k].pc = "decode"
    /\ LET f == output[k]
           p == parseResponse(f.raw, DefaultResponseType,
                              ReadOutcome(f.raw, AbortedOf(output, k)))
       IN output' = [output EXCEPT
                       ![k] = IF p.kind = "return" THEN ReturnedOf(f, p.value)
                              ELSE RaisedOf(f, p.value, input[k])]
    /\ UNCHANGED << input, heap, clients >>
    /\ UNCHANGED clientVars

NextConcurrent ==
    \/ \E cfg \in CallConfigs, s \in {0} \cup CallerSignals : Start(cfg, s)
    \/ \E k \in 1..Len(output) : ExecOf(k)
    \/ \E k \in 1..Len(output) : TimerFireOf(k)
    \/ \E s \in CallerSignals : CallerAbortOf(s)
    \/ \E k \in 1..Len(output), r \in ConcurrentResponses : FetchResolvesOf(k, r)
    \/ \E k \in 1..Len(output) : FetchRaisesOf(k)
    \/ \E k \in 1..Len(output) : DecodeOf(k)

SpecConcurrent == InitConcurrent /\ [][NextConcurrent]_vars

\* ------------------------------------- use and eject while a request is in flight

\* interceptors.<c>.use called while request() is suspended, by a handler or
\* by other application code: the same push on the same array.
UseLive(c, f, r) ==
    /\ nreg < MaxUse
    /\ InFlight
    /\ LET reg == nreg + 1
           interceptor == [reg |-> reg, onFulfilled |-> f, onRejected |-> r]
           pushed == Append(Chain(c), interceptor)
       IN /\ requestInterceptors' =
                 IF c = "request" THEN pushed ELSE requestInterceptors
          /\ responseInterceptors' =
                 IF c = "response" THEN pushed ELSE responseInterceptors
          /\ nreg' = reg
          /\ issued' = Append(issued, [chain |-> c, handle |-> UseHandle(pushed)])
          /\ trace' = Append(trace, Event("use", c, interceptor, None))
    /\ UNCHANGED << defaults, pc, config, requestConfig, current, i, cur,
                    result, ejectedRegs, runEjected >>
    /\ UNCHANGED execVars
    /\ UNCHANGED sideVars

\* interceptors.<c>.eject called while request() is suspended: the same
\* splice on the same array.
EjectLive(c, id) ==
    /\ InFlight
    /\ requestInterceptors' =
           IF c = "request" THEN EjectResult(requestInterceptors, id)
           ELSE requestInterceptors
    /\ responseInterceptors' =
           IF c = "response" THEN EjectResult(responseInterceptors, id)
           ELSE responseInterceptors
    /\ ejectedRegs' = ejectedRegs \cup
           { reg \in 1..nreg : issued[reg].chain = c /\ issued[reg].handle = id }
    /\ UNCHANGED << defaults, pc, config, requestConfig, current, i, cur,
                    result, nreg, issued, runEjected, trace >>
    /\ UNCHANGED execVars
    /\ UNCHANGED sideVars

NextLive ==
    \/ Next
    \/ \E c \in Chains, h \in InterceptorInputs : UseLive(c, h[1], h[2])
    \/ \E c \in Chains, id \in EjectIds : EjectLive(c, id)

SpecLive == Init /\ [][NextLive]_vars

\* ------------------------------------------------------------------ claims

Rank(e) ==
    IF e.ev = "merge" THEN 0
    ELSE IF e.ev = "transport" THEN 2
    ELSE IF e.ev = "decoded" THEN 3
    ELSE IF e.chain = "request" THEN 1 ELSE 4

Has(e) == \E p \in DOMAIN trace : trace[p].ev = e

\* C1: within one request() call the stages run in pipeline order: the merge
\* first and once, then the request interceptors, then the transport call
\* (once, and only after the last request interceptor has settled), then the
\* decoded response (once), then the response interceptors, which never run
\* without a decoded response.
C1_PipelineOrder ==
    /\ trace # <<>> => trace[1].ev = "merge"
    /\ \A p, q \in DOMAIN trace :
           p < q => /\ Rank(trace[p]) <= Rank(trace[q])
                    /\ Rank(trace[p]) \in {0, 2, 3} => Rank(trace[p]) < Rank(trace[q])
    /\ \A p \in DOMAIN trace :
           /\ trace[p].ev = "transport" =>
                  p > 1 /\ trace[p - 1].ev \in {"merge", "retF", "retR"}
           /\ trace[p].ev = "decoded" =>
                  \E q \in 1..(p - 1) : trace[q].ev = "transport"
           /\ trace[p].chain = "response" =>
                  \E q \in 1..(p - 1) : trace[q].ev = "decoded"
    /\ pc \in {"reqFulfilled", "reqRejected", "reqDone"} => ~Has("transport")
    /\ pc \in {"fetch", "decode"} => Has("transport") /\ ~Has("decoded")
    /\ pc \in {"execDone", "resFulfilled", "resRejected", "resolved"} => Has("decoded")

\* A request that went through every stage.
C1_Witness ==
    /\ pc = "resolved"
    /\ \E p \in DOMAIN trace : trace[p].chain = "request"
    /\ \E p \in DOMAIN trace : trace[p].chain = "response"

\* The registrations of chain c that have a fulfillment handler, in order.
Fulfillers(c) ==
    LET h == SelectSeq(Chain(c), LAMBDA x : x.onFulfilled # "absent")
    IN [k \in 1..Len(h) |-> h[k].reg]

\* The registrations whose fulfillment handler the request called, in order.
Called(c) ==
    LET h == SelectSeq(trace, LAMBDA e : e.chain = c /\ e.ev = "callF")
    IN [k \in 1..Len(h) |-> h[k].reg]

IsPrefix(s, t) == Len(s) <= Len(t) /\ \A k \in 1..Len(s) : s[k] = t[k]

\* C2: with the chains unchanged while the request is in flight, the
\* fulfillment handlers of each chain are called in registration order, each
\* one after the handler before it has settled, and with the value that
\* handler (or its rejection handler) produced; the first one gets the value
\* the chain was started with.
C2_SequentialInOrder ==
    \A c \in Chains :
        /\ IsPrefix(Called(c), Fulfillers(c))
        /\ \A p \in DOMAIN trace :
               (trace[p].chain = c /\ trace[p].ev = "callF") =>
                   /\ p > 1
                   /\ trace[p - 1].ev \in {"merge", "decoded", "retF", "retR"}
                   /\ trace[p - 1].ev \in {"retF", "retR"} => trace[p - 1].chain = c
                   /\ trace[p].val = trace[p - 1].val

\* A chain of two fulfillment handlers, both called.
C2_Witness ==
    \E c \in Chains : Len(Called(c)) >= 2

\* C3: when a request interceptor's fulfillment handler raises and the
\* interceptor has no rejection handler, nothing runs after it (no request
\* interceptor, no transport call, no response interceptor) and request()
\* rejects.
C3_UnhandledRaiseShortCircuits ==
    \A p \in DOMAIN trace :
        (trace[p].ev = "throwF" /\ trace[p].chain = "request" /\ ~trace[p].hasR) =>
            /\ p = Len(trace)
            /\ pc = "rejected"
            /\ result.by = trace[p].reg

\* The first of two request interceptors raised, with no rejection handler.
C3_Witness ==
    /\ pc = "rejected"
    /\ Len(requestInterceptors) = 2
    /\ requestInterceptors[2].onFulfilled # "absent"
    /\ \E p \in DOMAIN trace :
           /\ trace[p].ev = "throwF" /\ ~trace[p].hasR
           /\ trace[p].reg = requestInterceptors[1].reg

\* C4: when a fulfillment handler raises and its interceptor has a rejection
\* handler, that handler is called with the raised value; when it returns,
\* its result is the current value and the chain goes on with the next
\* interceptor (or ends successfully).  The same in both chains.
C4_RecoveryContinues ==
    \A p \in DOMAIN trace :
        /\ (trace[p].ev = "throwF" /\ trace[p].hasR) =>
               /\ p < Len(trace)
               /\ trace[p + 1].ev = "callR"
               /\ trace[p + 1].chain = trace[p].chain
               /\ trace[p + 1].reg = trace[p].reg
               /\ trace[p + 1].val = trace[p].val
        /\ trace[p].ev = "retR" =>
               /\ trace[p - 1].ev = "callR" /\ trace[p - 1].reg = trace[p].reg
               /\ IF p < Len(trace)
                  THEN /\ trace[p + 1].ev \in {"callF", "transport", "decoded"}
                       /\ trace[p + 1].ev = "callF" =>
                              /\ trace[p + 1].chain = trace[p].chain
                              /\ trace[p + 1].val = trace[p].val
                       /\ trace[p + 1].ev = "transport" =>
                              /\ trace[p].chain = "request"
                              /\ trace[p + 1].val = trace[p].val
                       /\ trace[p + 1].ev = "decoded" => FALSE
                  ELSE /\ pc = IF trace[p].chain = "request" THEN "reqDone" ELSE "resolved"
                       /\ current = trace[p].val
                       /\ trace[p].chain = "response" => result = trace[p].val

\* A request in which a rejection handler recovered in each of the two chains.
C4_Witness ==
    /\ pc = "resolved"
    /\ \E p \in DOMAIN trace : trace[p].ev = "retR" /\ trace[p].chain = "request"
    /\ \E p \in DOMAIN trace : trace[p].ev = "retR" /\ trace[p].chain = "response"

\* executeRequest raised: the transport was called and request() rejected
\* without a decoded response.
TransportStepFailed == pc = "rejected" /\ Has("transport") /\ ~Has("decoded")

\* C5: when the transport step fails (a non-success status, a transport
\* failure), the rejection handler of a registered response interceptor is
\* called with the error.
C5_ResponseRejectionHandlerSeesTransportError ==
    (/\ TransportStepFailed
     /\ \E k \in DOMAIN responseInterceptors :
            responseInterceptors[k].onRejected # "absent")
        => \E p \in DOMAIN trace :
               trace[p].ev = "callR" /\ trace[p].chain = "response"

\* C6: a run of the chain that begins after eject(h) was called with the
\* handle h that use returned for an interceptor calls neither handler of
\* that interceptor.
C6_EjectedNeverInvoked ==
    \A p \in DOMAIN trace :
        trace[p].ev \in {"callF", "callR"} => trace[p].reg \notin runEjected

\* No interceptor now in chain c was given handle id by use.
Stale(c, id) ==
    \A k \in DOMAIN Chain(c) : issued[Chain(c)[k].reg].handle # id

\* C7: eject with a handle whose interceptor is no longer in the chain (or
\* that was never issued) leaves both chains as they are.
C7_StaleEjectIsNoOp ==
    [][\A c \in Chains, id \in EjectIds :
           (Stale(c, id) /\ Eject(c, id)) =>
               UNCHANGED << requestInterceptors, responseInterceptors >>]_vars

\* C8: the handles use returns on one chain are strictly increasing.
C8_HandlesIncrease ==
    \A a, b \in DOMAIN issued :
        (a < b /\ issued[a].chain = issued[b].chain) =>
            issued[a].handle < issued[b].handle

\* C9: a request with an effective timeout T > 0 and no caller-supplied
\* signal, whose transport call never resolved before the timer fired, has
\* failed with the timeout error whose message names T.
C9_TimeoutNamesEffectiveTimeout ==
    (/\ pc = "rejected"
     /\ Has("transport")
     /\ raw = None
     /\ controller
     /\ timerFired
     /\ HasTimeout(requestConfig))
        => /\ result.text = "timeout"
           /\ result.ms = requestConfig.timeout

\* C10: a request whose transport call was cancelled through the signal the
\* caller supplied rejects with the plain abort error, never with the timeout
\* error.
C10_CallerAbortIsNotTimeout ==
    (/\ pc = "rejected"
     /\ Has("transport")
     /\ raw = None
     /\ ~controller
     /\ callerAborted)
        => /\ result.name = "AbortError"
           /\ result.text # "timeout"

\* C11: every rejection of request(), from whatever stage, reaches the caller
\* as an error that carries a RequestConfig in its config field.
C11_EveryRejectionCarriesConfig ==
    pc = "rejected" => result.config # {}

\* C12: the config on an error of the transport step (transport failure,
\* failure status, timeout) is the effective config, the one the request
\* interceptors produced and executeRequest was given, and not the config the
\* caller passed to request().
C12_ErrorCarriesEffectiveConfig ==
    TransportStepFailed => result.config = {requestConfig}

\* C13: executeRequest clears its timer on every way out (a response, a
\* transport failure, a failure status, a decode failure, an abort): a timer
\* is pending only while executeRequest awaits fetch or the body, so none is
\* left, and none can fire, once the request has settled.
C13_TimerClearedOnEveryExit ==
    timerPending => pc \in {"fetch", "decode"}

\* A request with a timer, which did not fire, rejected on a failure status
\* whose body could not be read.
C13_Witness ==
    /\ pc = "rejected"
    /\ Has("transport")
    /\ controller
    /\ HasTimeout(requestConfig)
    /\ ~timerFired
    /\ result.text = "status"
    /\ result.data = {}

\* C14: when the effective config has a signal, fetch is given that signal:
\* executeRequest makes no controller and no timer, whatever the timeout; and
\* when it has none, fetch is given the signal of the controller
\* executeRequest made.  One signal per call, never both.
C14_CallerSignalReplacesTimer ==
    Has("transport") =>
        /\ controller = ~requestConfig.signal
        /\ requestConfig.signal => ~timerPending /\ ~timerFired
        /\ timerPending \/ timerFired => controller /\ HasTimeout(requestConfig)

\* fetch is awaited with the caller's signal and a timeout > 0 in the config.
C14_Witness ==
    /\ pc = "fetch"
    /\ requestConfig.signal
    /\ HasTimeout(requestConfig)

\* C15: when fetch resolves with a failure status, request() rejects with
\* the status error, which carries the status, the status text, the headers
\* and the decoded body; when the read of the body raises, that raise is
\* swallowed and the same status error is raised without data.
C15_FailureStatusRejects ==
    (/\ pc = "rejected"
     /\ raw # None
     /\ raw.status \notin 200..299)
        => /\ result.name = "Error"
           /\ result.text = "status"
           /\ result.status = {raw.status}
           /\ result.statusText = {raw.statusText}
           /\ result.headers = {raw.headers}
           /\ result.data = IF ReadOutcome(raw, Aborted) = "data"
                            THEN {Body(Reader(DefaultResponseType))}
                            ELSE {}

\* A 404 whose body could not be decoded, with no abort.
C15_Witness ==
    /\ pc = "rejected"
    /\ raw # None
    /\ raw.status = 404
    /\ raw.body = "invalid"
    /\ ~Aborted

\* C16: a response with status 204 is not decoded: parseResponse returns the
\* empty object when responseType is "json" and null for every other
\* responseType, whether the response is ok or not.
C16_NoContentByResponseType ==
    (output # None /\ input.response.status = 204) =>
        output = Returned(IF input.responseType = "json" THEN "emptyObject"
                          ELSE "null")

\* C17: the headers of the merged config are the defaults' headers overlaid
\* key by key with the override's (a key of either side is there, the
\* override's value wins a tie); every other property the override has is
\* the override's, as it is, and every other property only the defaults
\* have is the defaults'.
C17_MergeOverlaysHeaders ==
    output # None =>
        LET d == input.defaults
            c == input.override
            m == output.value
        IN /\ DOMAIN m = DOMAIN d \cup DOMAIN c \cup {"headers"}
           /\ DOMAIN m.headers = DOMAIN HeadersOf(d) \cup DOMAIN HeadersOf(c)
           /\ \A h \in DOMAIN m.headers :
                  m.headers[h] = IF h \in DOMAIN HeadersOf(c)
                                 THEN HeadersOf(c)[h] ELSE HeadersOf(d)[h]
           /\ \A k \in DOMAIN c \ {"headers"} : m[k] = c[k]
           /\ \A k \in DOMAIN d \ (DOMAIN c \cup {"headers"}) : m[k] = d[k]

\* A merge in which each side has a header the other has not, both have one
\* with different values, and both have a timeout, with different values.
C17_Witness ==
    /\ output # None
    /\ LET dh == HeadersOf(input.defaults)
           ch == HeadersOf(input.override)
       IN /\ DOMAIN dh \ DOMAIN ch # {}
          /\ DOMAIN ch \ DOMAIN dh # {}
          /\ \E h \in DOMAIN dh \cap DOMAIN ch : dh[h] # ch[h]
    /\ "timeout" \in DOMAIN input.defaults \cap DOMAIN input.override
    /\ input.defaults.timeout # input.override.timeout

\* C18: the defaults of the client create(config) returns are
\* merge(parent.defaults, config), headers merged key by key: a header of the
\* parent's defaults that config.headers does not name is still a default
\* header of the new client.
C18_CreateMergesDefaults ==
    [][\A p \in DOMAIN clients, cfg \in CreateConfigs :
           Create(p, cfg) =>
               Deep(heap', clients', Len(clients) + 1)
                   = merge(Deep(heap, clients, p), cfg)]_vars

\* C19: the chains of an instance are what was registered and ejected
\* through that instance, and nothing else: the client create() returns has
\* two empty chains whatever the parent has registered, and use or eject on
\* one instance changes no chain of another.
C19_ChainsNotShared ==
    \A k \in DOMAIN clients :
        ChainsIn(heap, clients, k) =
            << clients[k].registered.requestInterceptors,
               clients[k].registered.responseInterceptors >>

\* A client made by create() while its parent had an interceptor; it has
\* registered a response interceptor since, and the parent has ejected its
\* own.
C19_Witness ==
    \E k \in DOMAIN clients :
        /\ clients[k].parent # 0
        /\ clients[k].parentHad
        /\ ChainsIn(heap, clients, k) = << <<>>, << OneInterceptor >> >>
        /\ ChainsIn(heap, clients, clients[k].parent) = << <<>>, <<>> >>

\* C20: after child = parent.create(config), a write to the defaults of one
\* of the two (a property of defaults, or an entry of defaults.headers set in
\* place) leaves the defaults of the other as they were, whatever config was.
C20_DefaultsIndependent ==
    [][\A k \in DOMAIN clients :
           ((\E w \in HeaderWrites : SetHeader(k, w[1], w[2]))
                \/ (\E t \in TimeoutWrites : SetTimeout(k, t))) =>
               \A j \in DOMAIN clients :
                   (clients[k].parent = j \/ clients[j].parent = k) =>
                       Deep(heap', clients', j) = Deep(heap, clients, j)]_vars

\* C21: whatever the outcome, request() leaves the caller's config object,
\* the instance's defaults with their headers object, and the two chains as
\* they were before the call: every object that existed then still has the
\* properties it had.
C21_RequestMutatesNothing ==
    /\ input.config = input.before.config
    /\ clients = input.before.clients
    /\ Len(heap) >= Len(input.before.heap)
    /\ SubSeq(heap, 1, Len(input.before.heap)) = input.before.heap

\* A request that rejected, made with a config whose headers name a header
\* the defaults have too.
C21_Witness ==
    /\ output.pc = "rejected"
    /\ "headers" \in DOMAIN input.config
    /\ DOMAIN heap[input.config.headers] \cap DOMAIN heap[clients[1].defaults.headers] # {}

\* C22: the body given to fetch is the JSON text of config.body exactly when
\* the body is a structured value (a plain object or an array) and the
\* Content-Type of the effective headers contains application/json; in every
\* other case, a binary or form payload under application/json included, it
\* is config.body itself.
C22_BodySerializedOnlyWhenStructured ==
    output # None =>
        output.value =
            IF /\ input.body \in {"plainObject", "array"}
               /\ IncludesJson(ContentTypeOf(input.headers))
            THEN Stringified(input.body)
            ELSE Unchanged(input.body)

\* C23: the query of the URL given to fetch has no parameter whose value is
\* null or undefined, and has every other parameter once, as key=value with
\* the value as text, in the order the parameters were put in the mapping.
C23_QueryInInsertionOrder ==
    output # None =>
        LET kept == SelectSeq(input.params,
                              LAMBDA e : e.value.type \notin {"null", "undefined"})
        IN output.value = [k \in DOMAIN kept |-> QueryPair(kept[k])]

\* C24: executeServerAction never rejects; when actionFn rejects with (or
\* throws) a value that is not an Error object, the result is the generic
\* error, message "An unknown error occurred" and details {}, with no data
\* and no status, and nothing of the rejected value is in it.
C24_ExecuteServerActionNeverRejects ==
    (output # None /\ input.fn = "executeServerAction") =>
        /\ output.kind = "return"
        /\ (input.how # "resolve" /\ ~input.x.isError) =>
               output.value = UnknownErrorResult

\* The action rejected with a plain object that has the message, status and
\* data of an HttpError but is no Error.
C24_Witness ==
    /\ output # None
    /\ input.fn = "executeServerAction"
    /\ input.how = "reject"
    /\ ~input.x.isError
    /\ input.x.status = {404}
    /\ input.x.data # {}

\* C25: for a successful HttpResponse r, createServerActionResult(r) and
\* executeServerAction(() => r) give a result whose only defined field is
\* data, equal to r.data.
C25_ResultIsDataOnly ==
    (output # None /\ input.how \in {"call", "resolve"} /\ "statusText" \in DOMAIN input.x) =>
        output = Returned(Result({input.x.data}, {}, {}, {}, {}))

\* C26: when the value raised inside the pipeline already carries a config,
\* the finalizer raises that same value: its config, status, data and
\* message are what they were, whatever the origin of the value.
C26_ClassifiedErrorRethrownUnchanged ==
    (output # None /\ input.error.config # {}) =>
        output = Raised(input.error)

\* C27: calls of request() in flight together are independent.  Each call
\* has the merge of its own config, and its timer exists only with its own
\* controller and only while it is in flight; a call is rejected with the
\* timeout error only when its own signal has fired (its own timer, or the
\* caller's signal it was given), a call whose signal has not fired ends as
\* its own response says, and a call resolves only with its own signal not
\* fired, whatever the other calls did in between.
C27_ConcurrentCallsIndependent ==
    \A k \in 1..Len(output) :
        LET f == output[k]
            own == IF f.controller THEN f.timerFired ELSE f.callerAborted
        IN /\ f.requestConfig = mergeConfig(input[k])
           /\ f.timerPending => (f.controller /\ f.pc \in {"fetch", "decode"})
           /\ f.timerFired => f.controller
           /\ f.pc = "resolved" =>
                  /\ ~own
                  /\ f.raw.ok
                  /\ f.result = ResponseOf(f, "parsed")
           /\ f.pc = "rejected" =>
                  /\ f.result.config = {input[k]}
                  /\ (f.result.text = "timeout") => own
                  /\ (~own /\ f.raw # None) =>
                         f.result = [StatusError(f.raw, {"parsed"}) EXCEPT
                                         !.config = {input[k]}]
                  /\ (~own /\ f.raw = None) => f.result.text = "network"

\* Two calls are in flight: the timer of one has fired, the other is reading
\* its body with its timer pending and its signal not fired.
C27_Witness ==
    \E j, k \in 1..Len(output) :
        /\ j # k
        /\ output[k].pc \in {"fetch", "decode"}
        /\ output[k].timerFired
        /\ output[j].pc = "decode"
        /\ output[j].timerPending
        /\ ~output[j].timerFired

\* C28: when a request resolves (no chain was left by a raise), every
\* interceptor that has a fulfillment handler, was registered before the
\* request started and is still registered has had that handler called
\* exactly once for the request, also when use or eject was called on its
\* chain while the request was suspended.
C28_RegisteredInterceptorRunsOnce ==
    pc = "resolved" =>
        \A c \in Chains : \A k \in 1..Len(Chain(c)) :
            LET reg == Chain(c)[k].reg
                during == \E n \in 1..Len(trace) :
                              trace[n].ev = "use" /\ trace[n].reg = reg
                calls == { n \in 1..Len(trace) :
                               /\ trace[n].ev = "callF"
                               /\ trace[n].chain = c
                               /\ trace[n].reg = reg }
            IN (Chain(c)[k].onFulfilled # "absent" /\ ~during) =>
                   Cardinality(calls) = 1
====
